---- MODULE Spec2Model ----
(***************************************************************************)
(* A model of decouple.py: Config.get (environment, then repository, then  *)
(* default) and SuperConfig (discovery of config files by walking upward   *)
(* from the caller's directory and from the configured search paths, then  *)
(* a first-match lookup over the Configs that were loaded).                *)
(*                                                                         *)
(* Paths are absolute POSIX paths, written as the sequence of their        *)
(* components: <<>> is "/", <<"w","p">> is "/w/p".  A file name is the     *)
(* sequence of its dot-separated pieces with the dots kept as pieces of    *)
(* their own: <<".","env">> is ".env", <<"settings",".","ini">> is         *)
(* "settings.ini".  A Python value is a pair <<type, repr>>.               *)
(***************************************************************************)
EXTENDS Integers, Sequences, FiniteSets, TLC

VARIABLES
    cwd,            \* os.getcwd()
    search_paths,   \* SuperConfig.search_paths (a tuple of paths)
    environ,        \* os.environ: option name -> string
    files,          \* the files on disk, in the order os.listdir reports them
    configs,        \* SuperConfig.configs: the Configs, in the order they were appended
    config_paths,   \* SuperConfig.config_paths: full paths already taken up
    listed,         \* history: path -> how many times os.listdir(path) was called
    discovered,     \* history: full paths in the order their Source was constructed
    broken,         \* history: full paths whose Source failed to construct
    calls,          \* history: number of lookups made so far
    last            \* history: the last lookup, its arguments, outcome and trace

vars == <<cwd, search_paths, environ, files, configs, config_paths,
          listed, discovered, broken, calls, last>>

(***************************************************************************)
(* Bounds of the model.                                                    *)
(***************************************************************************)
MaxCalls == 2
MaxFiles == 2

(***************************************************************************)
(* The directory tree:  /  /w  /w/p  /w/p/s  /w/q                           *)
(***************************************************************************)
ROOT == <<>>
W == <<"w">>
P == <<"w", "p">>
S == <<"w", "p", "s">>
Q == <<"w", "q">>
Dirs == {ROOT, W, P, S, Q}

\* direct ancestors-or-self test on component sequences
IsUnder(d, top) == Len(d) >= Len(top) /\ SubSeq(d, 1, Len(top)) = top

(***************************************************************************)
(* File names and option values used as inputs.                            *)
(***************************************************************************)
DOT == "."
DotEnv == <<DOT, "env">>
SettingsIni == <<"settings", DOT, "ini">>
AppEnv == <<"app", DOT, "env">>
DotProdIni == <<DOT, "prod", DOT, "ini">>
DotEnvLocal == <<DOT, "env", DOT, "local">>
NotesTxt == <<"notes", DOT, "txt">>

Options == {"X", "Y"}

Str(s) == <<"str", s>>
Bool(b) == <<"bool", IF b THEN "True" ELSE "False">>

\* src/decouple.py:137-144
undefined == <<"Undefined", "undefined">>

(***************************************************************************)
(* Casting.                                                                *)
(***************************************************************************)
\* src/decouple.py:18-19
TRUE_VALUES == {"y", "yes", "t", "true", "on", "1"}
FALSE_VALUES == {"n", "no", "f", "false", "off", "0"}

\* str.lower on the strings used here (the only one with upper-case letters is "YES")
lower(value) == IF value = "YES" THEN "yes" ELSE value

\* a returned value or a raised exception
Return(val, src) == [exc |-> "", val |-> val, src |-> src]
Raise(exc, arg) == [exc |-> exc, val |-> Str(arg), src |-> ""]

\* src/decouple.py:21-31 (the argument is always a str here, see _cast_boolean)
strtobool(value) ==
    LET v == lower(value)
    IN  IF v \in TRUE_VALUES THEN Return(Bool(TRUE), "")
        ELSE IF v \in FALSE_VALUES THEN Return(Bool(FALSE), "")
        ELSE Raise("ValueError", v)

\* src/decouple.py:146-147
_cast_do_nothing(value) == Return(Str(value), "")

\* src/decouple.py:159-164
_cast_boolean(value) ==
    IF value = "" THEN Return(Bool(FALSE), "") ELSE strtobool(value)

Casts == {"_cast_do_nothing", "bool"}

\* the call cast(value) of Config.get, after `if cast is bool: cast = self._cast_boolean`
ApplyCast(cast, value) ==
    IF cast = "bool" THEN _cast_boolean(value) ELSE _cast_do_nothing(value)

(***************************************************************************)
(* Repositories.  A file on disk is [dir, name, ok, data]: ok says whether *)
(* a Repository can be constructed from it, data is what its parser reads  *)
(* from it (for an .ini file, the options of its [settings] section).      *)
(***************************************************************************)
Repository(cls, file) == [cls |-> cls, data |-> file.data]

\* RepositoryEnv.__contains__ / RepositoryIni.__contains__ for a key without "."
Contains(repository, key) == key \in DOMAIN repository.data

\* RepositoryEnv.__getitem__ / RepositoryIni.__getitem__
GetItem(repository, key) == repository.data[key]

\* a Config.get without the check for a missing default: the sentinel is returned
ConfigGet_NoRaise(repository, option, default, cast) ==
    IF option \in DOMAIN environ
    THEN LET r == ApplyCast(cast, environ[option])
         IN  IF r.exc = "" THEN Return(r.val, "environ") ELSE r
    ELSE IF Contains(repository, option)
    THEN LET r == ApplyCast(cast, GetItem(repository, option))
         IN  IF r.exc = "" THEN Return(r.val, "repository") ELSE r
    ELSE Return(default, "default")

(***************************************************************************)
(* Config.get                                                              *)
(***************************************************************************)
\* src/decouple.py:186-210
ConfigGet(repository, option, default, cast) ==
    IF option \in DOMAIN environ
    THEN LET r == ApplyCast(cast, environ[option])
         IN  IF r.exc = "" THEN Return(r.val, "environ") ELSE r
    ELSE IF Contains(repository, option)
    THEN LET r == ApplyCast(cast, GetItem(repository, option))
         IN  IF r.exc = "" THEN Return(r.val, "repository") ELSE r
    ELSE IF default = undefined
    THEN Raise("UndefinedValueError", option)
    ELSE Return(default, "default")

(***************************************************************************)
(* Paths and file names.                                                   *)
(***************************************************************************)
\* os.path.dirname of an absolute path: dirname("/") = "/", dirname("/w") = "/"
dirname(path) == IF Len(path) = 0 THEN path ELSE SubSeq(path, 1, Len(path) - 1)

\* len() of the path as a string: "/" for the root, "/c" for every component c
StrLen(path) == IF Len(path) = 0 THEN 1 ELSE 2 * Len(path)

\* os.path.normcase on POSIX returns its argument
normcase(path) == path

\* os.path.abspath(os.sep)
abspath_sep == ROOT

\* str.rfind(".") on a file name, 0 when there is no dot
RFindDot(filename) ==
    LET dots == {i \in 1..Len(filename) : filename[i] = DOT}
    IN  IF dots = {} THEN 0 ELSE CHOOSE i \in dots : \A j \in dots : j <= i

\* os.path.splitext(os.path.basename(filename)): the extension starts at the last
\* dot, unless only dots precede it (leading dots belong to the name)
splitext(filename) ==
    LET dotIndex == RFindDot(filename)
    IN  IF dotIndex > 0 /\ \E k \in 1..(dotIndex - 1) : filename[k] # DOT
        THEN <<SubSeq(filename, 1, dotIndex - 1), SubSeq(filename, dotIndex, Len(filename))>>
        ELSE <<filename, <<>>>>

\* name.startswith('.')
startswith_dot(name) == Len(name) > 0 /\ name[1] = DOT

\* src/decouple.py:268-269
ExtOf(filename) ==
    LET ne == splitext(filename)
    IN  IF startswith_dot(ne[1]) THEN ne[1] ELSE ne[2]

\* src/decouple.py:256-257
EXTS == (<<DOT, "env">> :> "RepositoryEnv") @@ (<<DOT, "ini">> :> "RepositoryIni")
DIRECT == <<DotEnv, SettingsIni>>

InTuple(x, tuple) == \E i \in 1..Len(tuple) : tuple[i] = x

\* src/decouple.py:270-273: the condition under which _load_in_dir takes an entry
ShouldLoad(path, filename) ==
    \/ (InTuple(path, search_paths) /\ ExtOf(filename) \in DOMAIN EXTS)
    \/ InTuple(filename, DIRECT)

(***************************************************************************)
(* The file system.                                                        *)
(***************************************************************************)
FullPath(path, filename) == <<path, filename>>      \* os.path.join(path, filename)

HasFile(path, filename) ==
    \E i \in 1..Len(files) : files[i].dir = path /\ files[i].name = filename

FileAt(path, filename) ==
    files[CHOOSE i \in 1..Len(files) : files[i].dir = path /\ files[i].name = filename]

RECURSIVE FileNamesIn(_, _)
FileNamesIn(path, i) ==
    IF i > Len(files) THEN <<>>
    ELSE (IF files[i].dir = path THEN <<files[i].name>> ELSE <<>>) \o FileNamesIn(path, i + 1)

RECURSIVE SeqOfSet(_)
SeqOfSet(set) ==
    IF set = {} THEN <<>>
    ELSE LET x == CHOOSE y \in set : TRUE IN <<x>> \o SeqOfSet(set \ {x})

\* the sub-directories of path, as directory entries
SubDirNames(path) ==
    SeqOfSet({<<d[Len(d)]>> : d \in {e \in Dirs : Len(e) = Len(path) + 1 /\ IsUnder(e, path)}})

\* os.listdir(path): the config-like files of path, then a notes.txt that every
\* directory holds, then the sub-directories of path
listdir(path) == FileNamesIn(path, 1) \o <<NotesTxt>> \o SubDirNames(path)

(***************************************************************************)
(* SuperConfig.  A discovery state is [configs, config_paths, exc, trace]; *)
(* exc is the exception in flight ("" when none), trace the sequence of    *)
(* events of the call so far.                                              *)
(***************************************************************************)
Event(ev, path, filename, n) == [ev |-> ev, dir |-> path, name |-> filename, n |-> n]

\* the new Config put in front of the list instead of behind it
PrependConfig(cfgs, config) == <<config>> \o cfgs

\* src/decouple.py:277: self.configs.append(Config(...))
AppendConfig(cfgs, config) == Append(cfgs, config)

\* src/decouple.py:274-277: one matching entry of the directory
LoadEntry(path, filename, st) ==
    LET full_path == FullPath(path, filename)
        ext == ExtOf(filename)
    IN  IF full_path \in st.config_paths THEN st
        ELSE LET added == [st EXCEPT !.config_paths = @ \cup {full_path}]
             IN  IF ext \notin DOMAIN EXTS
                 THEN [added EXCEPT !.exc = "KeyError"]
                 ELSE IF ~HasFile(path, filename) \/ ~FileAt(path, filename).ok
                 THEN [added EXCEPT !.exc = "LoadError",
                                    !.trace = Append(@, Event("fail", path, filename, 0))]
                 ELSE [added EXCEPT
                         !.configs = AppendConfig(@,
                             [path |-> full_path,
                              repository |-> Repository(EXTS[ext], FileAt(path, filename))]),
                         !.trace = Append(@, Event("load", path, filename, 0))]

\* src/decouple.py:267-277: the loop over the entries of the directory
RECURSIVE LoadEntries(_, _, _)
LoadEntries(path, entries, st) ==
    IF entries = <<>> \/ st.exc # "" THEN st
    ELSE LoadEntries(path, Tail(entries),
                     IF ShouldLoad(path, Head(entries))
                     THEN LoadEntry(path, Head(entries), st)
                     ELSE st)

\* src/decouple.py:264-277
_load_in_dir(path, st) ==
    LoadEntries(path, listdir(path),
                [st EXCEPT !.trace = Append(@, Event("listdir", path, <<>>, Len(st.configs)))])

\* the walk stopped one directory early: the parent is compared with the working directory
GoesUp_ParentNotCwd(path) ==
    LET parent == dirname(path)
    IN  /\ StrLen(parent) > 0
        /\ normcase(parent) # normcase(abspath_sep)
        /\ parent # cwd

\* src/decouple.py:283-287: whether _find_files goes on to the parent
GoesUp(path) ==
    LET parent == dirname(path)
    IN  /\ StrLen(parent) > 0
        /\ normcase(parent) # normcase(abspath_sep)
        /\ path # cwd

\* src/decouple.py:280-288
RECURSIVE _find_files(_, _)
_find_files(path, st) ==
    LET loaded == _load_in_dir(path, st)
    IN  IF loaded.exc # "" THEN loaded
        ELSE IF GoesUp(path) THEN _find_files(dirname(path), loaded)
        ELSE loaded

\* src/decouple.py:324-325: the loop over the caller's path and the search paths
RECURSIVE FindAll(_, _)
FindAll(paths, st) ==
    IF paths = <<>> \/ st.exc # "" THEN st
    ELSE FindAll(Tail(paths), _find_files(Head(paths), st))

\* discovery run again by every lookup
NeedsDiscovery_Always(cfgs) == TRUE

\* src/decouple.py:323
NeedsDiscovery(cfgs) == Len(cfgs) = 0

\* src/decouple.py:327-335: the loop over the configs, from index idx (1-based) on
RECURSIVE TryConfigs(_, _, _, _, _, _)
TryConfigs(cfgs, idx, option, default, cast, trace) ==
    IF idx > Len(cfgs)
    THEN [res |-> Raise("UndefinedValueError", option), trace |-> trace]
    ELSE LET r == ConfigGet(cfgs[idx].repository, option,
                            IF idx = Len(cfgs) THEN default ELSE undefined, cast)
             t == Append(trace, Event("get", cfgs[idx].path[1], cfgs[idx].path[2], idx))
         IN  IF r.exc = "UndefinedValueError"
             THEN TryConfigs(cfgs, idx + 1, option, default, cast, t)
             ELSE [res |-> r, trace |-> t]

\* src/decouple.py:316-335: SuperConfig.__call__, as a function of the state
SuperConfigCall(caller_path, option, default, cast) ==
    LET st0 == [configs |-> configs, config_paths |-> config_paths,
                exc |-> "", trace |-> <<>>]
        st1 == IF NeedsDiscovery(configs)
               THEN FindAll(<<caller_path>> \o search_paths, st0)
               ELSE st0
    IN  IF st1.exc # ""
        THEN [st |-> st1, res |-> Raise(st1.exc, ""), trace |-> st1.trace]
        ELSE LET out == TryConfigs(st1.configs, 1, option, default, cast, st1.trace)
             IN  [st |-> st1, res |-> out.res, trace |-> out.trace]

\* the events of one kind in a trace
EventsOf(trace, ev) == {i \in 1..Len(trace) : trace[i].ev = ev}
CountListdir(trace, path) ==
    Cardinality({i \in EventsOf(trace, "listdir") : trace[i].dir = path})

RECURSIVE LoadedPaths(_, _)
LoadedPaths(trace, i) ==
    IF i > Len(trace) THEN <<>>
    ELSE (IF trace[i].ev = "load" THEN <<FullPath(trace[i].dir, trace[i].name)>> ELSE <<>>)
         \o LoadedPaths(trace, i + 1)

(***************************************************************************)
(* Inputs.                                                                 *)
(***************************************************************************)
CallerDirs == {S, Q}
Defaults == {undefined, Str("1")}
SearchPathChoices == {<<>>, <<P>>, <<Q>>, <<Q, P>>}
CwdChoices == {P, S}
EnvironChoices == {<<>>, [X |-> "YES"]}

\* the places where a config-like file may be, and what it holds when it is there
FilePlaces ==
    {<<S, DotEnv>>, <<P, SettingsIni>>, <<P, AppEnv>>, <<W, DotEnv>>,
     <<Q, DotProdIni>>, <<Q, DotEnvLocal>>}

DataOf(place) ==
    IF place = <<S, DotEnv>> THEN [X |-> "1"]
    ELSE IF place = <<P, SettingsIni>> THEN [X |-> "no", Y |-> "x"]
    ELSE IF place = <<P, AppEnv>> THEN [Y |-> "1"]
    ELSE IF place = <<W, DotEnv>> THEN [X |-> "x", Y |-> ""]
    ELSE IF place = <<Q, DotProdIni>> THEN [X |-> "YES"]
    ELSE [Y |-> "1"]

DirRank(d) == IF d = S THEN 1 ELSE IF d = P THEN 2 ELSE IF d = W THEN 3 ELSE 4

\* the layouts: at most MaxFiles files, at most one of them unreadable or malformed;
\* the files of one directory come in any order
Layouts ==
    {fs \in UNION {[1..n -> FilePlaces \X BOOLEAN] : n \in 0..MaxFiles} :
        /\ \A i, j \in DOMAIN fs : i < j =>
              /\ fs[i][1] # fs[j][1]
              /\ DirRank(fs[i][1][1]) <= DirRank(fs[j][1][1])
        /\ Cardinality({i \in DOMAIN fs : ~fs[i][2]}) <= 1}

FilesOf(fs) ==
    [i \in DOMAIN fs |->
        [dir |-> fs[i][1][1], name |-> fs[i][1][2], ok |-> fs[i][2],
         data |-> DataOf(fs[i][1])]]

NoCall == [caller |-> ROOT, option |-> "", default |-> undefined, cast |-> "",
           res |-> Raise("", ""), trace |-> <<>>, pre |-> 0, prebroken |-> {}]

Init ==
    /\ cwd \in CwdChoices
    /\ search_paths \in SearchPathChoices
    /\ environ \in EnvironChoices
    /\ \E fs \in Layouts : files = FilesOf(fs)
    /\ configs = <<>>
    /\ config_paths = {}
    /\ listed = [d \in Dirs |-> 0]
    /\ discovered = <<>>
    /\ broken = {}
    /\ calls = 0
    /\ last = NoCall

\* one lookup: config(option, default=default, cast=cast) from a module in caller_path
Call(caller_path, option, default, cast) ==
    /\ calls < MaxCalls
    /\ \E out \in {SuperConfigCall(caller_path, option, default, cast)} :
           /\ configs' = out.st.configs
           /\ config_paths' = out.st.config_paths
           /\ listed' = [d \in Dirs |-> listed[d] + CountListdir(out.trace, d)]
           /\ discovered' = discovered \o LoadedPaths(out.trace, 1)
           /\ broken' = broken \cup
                  {FullPath(out.trace[i].dir, out.trace[i].name) : i \in EventsOf(out.trace, "fail")}
           /\ last' = [caller |-> caller_path, option |-> option, default |-> default,
                       cast |-> cast, res |-> out.res, trace |-> out.trace,
                       pre |-> Len(configs), prebroken |-> broken]
    /\ calls' = calls + 1
    /\ UNCHANGED <<cwd, search_paths, environ, files>>

Next ==
    \E caller_path \in CallerDirs, option \in Options, default \in Defaults, cast \in Casts :
        Call(caller_path, option, default, cast)

Spec == Init /\ [][Next]_vars

(***************************************************************************)
(* Notions the claims are stated with.                                     *)
(***************************************************************************)
Looked == calls > 0
InEnviron(option) == option \in DOMAIN environ
Seeds == <<last.caller>> \o search_paths
IsSeed(d) == InTuple(d, Seeds)
ListdirEvents == EventsOf(last.trace, "listdir")
GetEvents == EventsOf(last.trace, "get")

\* what the file at a full path holds, read from the disk
DataAt(full_path) == FileAt(full_path[1], full_path[2]).data

\* C1: a lookup of an option that is in the environment returns cast(environment
\* value), whatever was discovered, also when no config file was found at all
\* (a lookup ended by a load error is left aside).
C1_EnvironWins ==
    (Looked /\ InEnviron(last.option) /\ last.res.exc # "LoadError") =>
        LET r == ApplyCast(last.cast, environ[last.option])
        IN  last.res.exc = r.exc /\ last.res.val = r.val

\* C2: a lookup with a default, of an option that is neither in the environment nor
\* in any discovered Source, returns the default itself, uncast, also when the
\* list of Resolvers is empty.
C2_DefaultReturned ==
    (/\ Looked
     /\ last.default # undefined
     /\ ~InEnviron(last.option)
     /\ \A i \in 1..Len(configs) : last.option \notin DOMAIN DataAt(configs[i].path)
     /\ last.res.exc # "LoadError") =>
        (last.res.exc = "" /\ last.res.val = last.default)

\* the directories from which a seed's walk could take a file: the seed and its ancestors
AncestorsOrSelf(d) == {SubSeq(d, 1, n) : n \in 0..Len(d)}
SearchArea == UNION {AncestorsOrSelf(Seeds[i]) : i \in 1..Len(Seeds)}

NothingDefines(option) ==
    /\ ~InEnviron(option)
    /\ \A i \in 1..Len(files) :
          files[i].dir \in SearchArea => (files[i].ok /\ option \notin DOMAIN files[i].data)
    /\ \A i \in 1..Len(configs) : option \notin DOMAIN DataAt(configs[i].path)

Defining(option) == {i \in 1..Len(discovered) : option \in DOMAIN DataAt(discovered[i])}
FirstDefining(option) == CHOOSE i \in Defining(option) : \A j \in Defining(option) : i <= j
Consulted == [k \in 1..Cardinality(GetEvents) |->
                 LET i == CHOOSE e \in GetEvents : Cardinality({f \in GetEvents : f <= e}) = k
                 IN  FullPath(last.trace[i].dir, last.trace[i].name)]

\* C4: for an option that is not in the environment, the Resolvers are tried in
\* discovery order up to the first whose Source holds the option, which gives
\* the outcome (cast of its value); none after it is consulted.
C4_FirstDiscoveredWins ==
    (Looked /\ ~InEnviron(last.option) /\ last.res.exc # "LoadError") =>
        IF Defining(last.option) = {}
        THEN Consulted = discovered /\ last.res.src # "repository"
        ELSE LET k == FirstDefining(last.option)
                 r == ApplyCast(last.cast, DataAt(discovered[k])[last.option])
             IN  /\ Consulted = SubSeq(discovered, 1, k)
                 /\ last.res.exc = r.exc /\ last.res.val = r.val
                 /\ (r.exc = "" => last.res.src = "repository")

C4_Witness ==
    /\ Looked /\ ~InEnviron(last.option)
    /\ Len(discovered) >= 2
    /\ Defining(last.option) # {} /\ FirstDefining(last.option) = 2
    /\ last.res.src = "repository"
    /\ Len(Consulted) = 2

\* C5: no directory is listed more than once by one instance.
C5_ListedAtMostOnce == \A d \in Dirs : listed[d] <= 1

\* C6: every directory a walk reaches by moving to a parent is the working
\* directory or lies under it.
C6_StaysUnderCwd ==
    \A i \in ListdirEvents : IsSeed(last.trace[i].dir) \/ IsUnder(last.trace[i].dir, cwd)

\* C7: a load error leaves the lookup that meets it, and once a file has failed to
\* load, no later lookup that lists its directory again, or that searches nothing
\* because Resolvers are loaded, ends with the default or with UndefinedValueError
\* as if the file were not there.
C7_NeverSkipped ==
    /\ (EventsOf(last.trace, "fail") # {} => last.res.exc = "LoadError")
    /\ \A b \in last.prebroken :
          (last.pre > 0 \/ \E i \in ListdirEvents : last.trace[i].dir = b[1]) =>
              ~(last.res.src = "default" \/ last.res.exc = "UndefinedValueError")

\* the extension of a file name as the claim reads it: from the last dot on
LastExt(filename) ==
    IF RFindDot(filename) = 0 THEN <<>>
    ELSE SubSeq(filename, RFindDot(filename), Len(filename))

StatedMatch(path, filename) ==
    \/ (LastExt(filename) \in {<<DOT, "env">>, <<DOT, "ini">>} /\ InTuple(path, search_paths))
    \/ filename \in {DotEnv, SettingsIni}

StatedKind(filename) ==
    IF LastExt(filename) = <<DOT, "env">> THEN "RepositoryEnv" ELSE "RepositoryIni"

LoadedAs(path, filename) ==
    {configs[i].repository.cls : i \in {j \in 1..Len(configs) : configs[j].path = FullPath(path, filename)}}

\* C8: in the first lookup of an instance, with every file loadable, an entry of a
\* listed directory becomes a Resolver exactly when its extension is .env or .ini
\* and the directory is a search path, or its name is .env or settings.ini; the
\* Source kind follows the extension.
C8_MatchByExtension ==
    (calls = 1 /\ last.res.exc # "LoadError") =>
        \A i \in ListdirEvents :
            LET d == last.trace[i].dir
                entries == listdir(d)
            IN  \A k \in 1..Len(entries) :
                    /\ (LoadedAs(d, entries[k]) # {}) <=> StatedMatch(d, entries[k])
                    /\ LoadedAs(d, entries[k]) \subseteq {StatedKind(entries[k])}

Satisfies(config, option) == InEnviron(option) \/ Contains(config.repository, option)

WalkOf(seed) ==
    LET low == IF IsUnder(seed, cwd) THEN Len(cwd) ELSE IF Len(seed) = 0 THEN 0 ELSE 1
    IN  [k \in 1..(Len(seed) - low + 1) |-> SubSeq(seed, 1, Len(seed) - k + 1)]

RECURSIVE WalkOfAll(_)
WalkOfAll(seeds) ==
    IF seeds = <<>> THEN <<>> ELSE WalkOf(Head(seeds)) \o WalkOfAll(Tail(seeds))

RECURSIVE ListedDirs(_, _)
ListedDirs(trace, i) ==
    IF i > Len(trace) THEN <<>>
    ELSE (IF trace[i].ev = "listdir" THEN <<trace[i].dir>> ELSE <<>>) \o ListedDirs(trace, i + 1)

IsPrefix(s, t) == Len(s) <= Len(t) /\ SubSeq(t, 1, Len(s)) = s

\* C10: once the instance holds a Resolver, a lookup lists no directory and leaves
\* the Resolver list and the set of loaded paths as they are; the list never
\* shrinks, and no file path backs two Resolvers.
C10_FrozenOnceLoaded ==
    /\ [][/\ IsPrefix(configs, configs')
          /\ (Len(configs) > 0 =>
                 (configs' = configs /\ config_paths' = config_paths /\ listed' = listed))]_vars
    /\ [](\A i, j \in 1..Len(configs) : configs[i].path = configs[j].path => i = j)

C10_Witness ==
    /\ calls = 2 /\ last.pre > 0
    /\ last.res.exc = "ValueError"
    /\ \E d \in Dirs : listed[d] = 1

====
